---- MODULE Spec2Model ----
(***************************************************************************)
(* Model of the fbksd-server core library (fbksd-core/src/db.rs): the      *)
(* relational registry of techniques and workspaces and the two-priority   *)
(* durable task queue.  Every db.rs function is one action; a function run *)
(* inside conn.transaction is atomic by SQLite's serialisable isolation.   *)
(***************************************************************************)
EXTENDS Integers, Naturals, Sequences, FiniteSets, TLC

(***************************************************************************)
(* Bounds of the model.                                                    *)
(***************************************************************************)
\* technique ids (CI project ids) the calls are made for: 1..MaxTech
MaxTech == 1
\* number of uuids Uuid::new_v4 can mint in one behaviour
MaxUuid == 3
\* largest value of the wall clock (Utc::now)
MaxTime == 1
\* number of pop_next_task calls recorded in the delivery history
MaxPops == 3
MaxMsgs == 4
MaxConns == 2
MaxReqs == 2
MaxProcs == 2
\* number of scene names
MaxScenes == 2

TechIds == 1..MaxTech
Uuids == 1..MaxUuid

(***************************************************************************)
(* Program constants.                                                      *)
(***************************************************************************)
\* SystemConfig::max_num_workspaces (value of scenario S3)
MAX_WS == 2

\* info::TechniqueType as i32
DENOISER == 0
SAMPLER == 1

\* db::WorkspaceStatus as i32
New == 0
Finished == 1
Published == 2

\* db::TaskType as i32
Build == 0
RunBenchmark == 1
PublishResults == 2

\* Option::None of a nullable column (finish_time, publication_time, task_data)
Null == -1

\* the short name in the info.json of project id: every project has its own
OwnName(id) == <<"Box", "Nlm", "Rdfc", "Bm3d">>[id]

\* the technique_type in the info.json of project id
OwnType(id) == IF id % 2 = 1 THEN DENOISER ELSE SAMPLER

\* the shapes of TechniqueInfo::versions: names of the listed versions
VersionLists == {<<>>, <<"default">>, <<"v2">>, <<"default", "v2">>}

VARIABLES
    techniques,      \* table techniques: id -> row (domain = registered ids)
    workspaces,      \* table workspaces: set of rows
    next_uuid,       \* the next uuid Uuid::new_v4 mints
    now,             \* Utc::now
    priority_tasks,  \* table priority_tasks: set of rows
    normal_tasks,    \* table normal_tasks: set of rows
    delivered,       \* the tasks pop_next_task has returned, in call order
    message_tasks,   \* table message_tasks: set of rows
    pushed,          \* the number of push_msg_task calls made so far
    mailer,          \* the mailer's position in its loop, the message it holds and
                     \* whether a send of that message has failed
    sent,            \* the messages client.send has accepted, in order
    published_links, \* the symlinks workspaces/{G}/{id}/published: [id, uuid]
    private_pages,   \* the uuids u with a preview page public/{u}/
    ws_dirs,         \* the uuids u with a directory workspaces/{G}/{id}/{u}/
    public_data,     \* the ids with results in public/data/{G}/{short_name}
    opres,           \* the last operation of fbksd_core (lib.rs) and its result
    conn,            \* the TCP connections to the server, by client
    backlog,         \* the connections listener.incoming() has not yet returned
    server,          \* the server's position in its accept loop
    flock,           \* the process holding the lock on LOCK_FILE, or 0
    proc,            \* the command each ci / ctl process runs and its position
    written,         \* per directory, the process whose operation wrote it last
    consumer,        \* the consumer's position, the task it holds, the containers
                     \* it ran and the mails it queued
    corpus,          \* the scene names of .fbksd-scenes-cache.json
    tech_results,    \* the workspace of the project: its result files by scene
    page_results,    \* the result images of its private page, by scene
    scratch,         \* the scratch workspace: configured scenes and techniques,
                     \* and the results of the benchmark run in it
    scn_ret,         \* what the last scene operation returned
    last             \* the last call and what it returned

vars == <<techniques, workspaces, next_uuid, now, priority_tasks, normal_tasks, delivered,
          message_tasks, pushed, mailer, sent, published_links, private_pages, ws_dirs,
          public_data, opres, conn, backlog, server, flock, proc, written, consumer,
          corpus, tech_results, page_results, scratch, scn_ret, last>>

regVars == <<techniques, workspaces, next_uuid>>
queueVars == <<priority_tasks, normal_tasks, delivered>>
mailVars == <<message_tasks, pushed, mailer, sent>>
fsVars == <<published_links, private_pages, ws_dirs, public_data, opres>>
rpcVars == <<conn, backlog, server>>
lockVars == <<flock, proc, written>>
consVars == <<consumer>>
sceneVars == <<corpus, tech_results, page_results, scratch, scn_ret>>

Conns == 1..MaxConns
Procs == 1..MaxProcs

Registered == DOMAIN techniques

\* Workspace::belonging_to(&tech)
WorkspacesOf(id) == {w \in workspaces : w.technique_id = id}

\* a lookup by uuid alone, over the rows of every technique
WorkspaceByUuidOnly(id, uuid) == {w \in workspaces : w.uuid = uuid}

\* Workspace::belonging_to(&tech).filter(uuid.eq(uuid))
WorkspaceByUuid(id, uuid) == {w \in WorkspacesOf(id) : w.uuid = uuid}

\* the value a call returns, with the info.json it was given (arg) and the
\* workspace row it loaded before writing (found), where it has one
Ret(op, id, uuid, ret) ==
    [op |-> op, id |-> id, uuid |-> uuid, ret |-> ret, arg |-> <<>>, found |-> {}]

\* the mailer holds no message before its first read_next_message
NoMsg == [id |-> 0, msg |-> 0]

\* what an operation of fbksd_core returns: Ok, an error, or "panic" where an
\* unwrap / expect ends the process
OpRet(op, id, uuid, ret) ==
    [op |-> op, id |-> id, uuid |-> uuid, ret |-> ret, by |-> "none"]

\* a client that has not connected: no request written, none pending
NoConn == [state |-> "none", pending |-> <<>>, nsent |-> 0, resps |-> <<>>]

\* a process slot with no command running
NoProc == [cmd |-> "none", pc |-> "idle"]

\* the directories the lock protects
Dirs == {"scratch", "public", "scenes"}

\* what pop_next_task returns: the table and the row, or no task
NoTask == [table |-> "none", id |-> 0, technique_id |-> 0, task_type |-> Null]

\* the consumer before its first poll
NoConsumer == [pc |-> "poll", task |-> NoTask, runs |-> <<>>, mails |-> <<>>]

\* no workspace saved yet
NoResults == [saved |-> FALSE, files |-> {}]

\* the scratch workspace after remove_dir_all and create_dir_all
EmptyScratch == [scenes |-> {}, techniques |-> {}, results |-> {}]

Init ==
    /\ techniques = <<>>
    /\ workspaces = {}
    /\ next_uuid = 1
    /\ now = 0
    /\ priority_tasks = {}
    /\ normal_tasks = {}
    /\ delivered = <<>>
    /\ message_tasks = {}
    /\ pushed = 0
    /\ mailer = [pc |-> "read", msg |-> NoMsg, retried |-> FALSE]
    /\ sent = <<>>
    /\ published_links = {}
    /\ private_pages = {}
    /\ ws_dirs = {}
    /\ public_data = {}
    /\ opres = OpRet("init", 0, 0, "Ok")
    /\ conn = [c \in Conns |-> NoConn]
    /\ backlog = <<>>
    /\ server = [pc |-> "accept", c |-> 0]
    /\ flock = 0
    /\ proc = [p \in Procs |-> NoProc]
    /\ written = [d \in Dirs |-> 0]
    /\ consumer = NoConsumer
    /\ corpus = {}
    /\ tech_results = NoResults
    /\ page_results = {}
    /\ scratch = EmptyScratch
    /\ scn_ret = [op |-> "none", ret |-> "none"]
    /\ last = Ret("init", 0, 0, "Ok")

\* the wall clock advances between calls; the clock is stepped in the
\* behaviours that compare timestamps, the calls below only read it
Tick ==
    /\ now < MaxTime
    /\ now' = now + 1
    /\ last' = Ret("tick", 0, 0, "Ok")
    /\ UNCHANGED <<regVars, queueVars, mailVars, fsVars, rpcVars, lockVars, consVars, sceneVars>>

(***************************************************************************)
(* Registry: techniques.                                                   *)
(***************************************************************************)
\* the versions check at the head of register
ValidVersions(versions) ==
    ~ (Len(versions) > 1) /\ ~ (Len(versions) = 1 /\ versions[1] # "default")

\* a techniques table without the constraint on short_name
NameTakenNever(id, short_name) == FALSE

\* the UNIQUE constraint on techniques.short_name that register's
\* UniqueViolation branch handles
NameTaken(id, short_name) ==
    \E o \in Registered : o # id /\ techniques[o].short_name = short_name

\* an update branch that also overwrites the technique's kind
UpdateFieldsWithType(id, technique_type, short_name) ==
    [techniques EXCEPT ![id].short_name = short_name,
                       ![id].technique_type = technique_type]

\* the update branch of register: set((short_name, full_name, citation,
\* comment)) on the row of id; technique_type is not among the fields
UpdateFields(id, technique_type, short_name) ==
    [techniques EXCEPT ![id].short_name = short_name]

\* an insert branch that reports a UniqueViolation as any other error
InsertErrorUnspecified == "Unspecified"

\* the error register's insert branch returns on a UniqueViolation
InsertError == "NameAlreadyExists"

\* what register returns, with the info.json it was called with
RegRet(id, technique_type, short_name, versions, ret) ==
    [Ret("register", id, 0, ret) EXCEPT !.arg = <<technique_type, short_name, versions>>]

register(id, technique_type, short_name, versions) ==
    /\ UNCHANGED <<workspaces, next_uuid, now, queueVars, mailVars>>
    /\ IF ~ ValidVersions(versions)
       THEN /\ last' = RegRet(id, technique_type, short_name, versions, "InvalidInfoFile")
            /\ UNCHANGED techniques
       ELSE IF id \in Registered
       THEN \* update of the descriptive fields only
            IF NameTaken(id, short_name)
            THEN /\ last' = RegRet(id, technique_type, short_name, versions, "Unspecified")
                 /\ UNCHANGED techniques
            ELSE /\ techniques' = UpdateFields(id, technique_type, short_name)
                 /\ last' = RegRet(id, technique_type, short_name, versions, "Ok")
       ELSE IF NameTaken(id, short_name)
            THEN /\ last' = RegRet(id, technique_type, short_name, versions, InsertError)
                 /\ UNCHANGED techniques
            ELSE /\ techniques' = [o \in Registered \cup {id} |->
                        IF o = id
                        THEN [technique_type |-> technique_type,
                              short_name |-> short_name,
                              num_workspaces |-> 0]
                        ELSE techniques[o]]
                 /\ last' = RegRet(id, technique_type, short_name, versions, "Ok")

\* technique_type(id): the kind stored in the row of id
technique_type(id) ==
    IF id \in Registered THEN techniques[id].technique_type ELSE "NotRegistered"

(***************************************************************************)
(* Registry: workspaces.                                                   *)
(***************************************************************************)
\* a capacity test that admits one workspace too many
CapacityReachedOffByOne(id) == techniques[id].num_workspaces > MAX_WS

\* the capacity test of add_workspace
CapacityReached(id) == techniques[id].num_workspaces >= MAX_WS

add_workspace(id) ==
    /\ UNCHANGED <<now, queueVars, mailVars>>
    /\ IF id \notin Registered
       THEN /\ last' = Ret("add_workspace", id, 0, "NotRegistered")
            /\ UNCHANGED regVars
       ELSE IF CapacityReached(id)
       THEN /\ last' = Ret("add_workspace", id, 0, "MaxWorkspacesExceeded")
            /\ UNCHANGED regVars
       ELSE /\ next_uuid <= MaxUuid
            /\ workspaces' = workspaces \cup
                   {[technique_id |-> id, uuid |-> next_uuid, status |-> New,
                     finish_time |-> Null, publication_time |-> Null]}
            /\ techniques' = [techniques EXCEPT ![id].num_workspaces = @ + 1]
            /\ next_uuid' = next_uuid + 1
            /\ last' = Ret("add_workspace", id, next_uuid, "Ok")

\* a remove_workspace that forgets the num_workspaces update
DecrementNumSkipped(id) == techniques

\* the num_workspaces update of remove_workspace
DecrementNum(id) == [techniques EXCEPT ![id].num_workspaces = @ - 1]

remove_workspace(id, uuid) ==
    /\ UNCHANGED <<next_uuid, now, queueVars, mailVars>>
    /\ IF id \notin Registered
       THEN /\ last' = Ret("remove_workspace", id, uuid, "NotRegistered")
            /\ UNCHANGED <<techniques, workspaces>>
       ELSE IF WorkspaceByUuid(id, uuid) = {}
       THEN /\ last' = Ret("remove_workspace", id, uuid, "Unspecified")
            /\ UNCHANGED <<techniques, workspaces>>
       ELSE /\ workspaces' = workspaces \ WorkspaceByUuid(id, uuid)
            /\ techniques' = DecrementNum(id)
            /\ last' = Ret("remove_workspace", id, uuid, "Ok")

\* a row update that leaves an already Finished row as it is
SetFinishedOnce(w) ==
    IF w.status = Finished THEN w ELSE [w EXCEPT !.status = Finished, !.finish_time = now]

\* the row update of publish_workspace_private
SetFinished(w) == [w EXCEPT !.status = Finished, !.finish_time = now]

publish_workspace_private(id, uuid) ==
    /\ UNCHANGED <<techniques, next_uuid, now, queueVars, mailVars>>
    /\ IF id \notin Registered
       THEN /\ last' = Ret("publish_workspace_private", id, uuid, "NotRegistered")
            /\ UNCHANGED workspaces
       ELSE IF WorkspaceByUuid(id, uuid) = {}
       THEN /\ last' = Ret("publish_workspace_private", id, uuid, "Unspecified")
            /\ UNCHANGED workspaces
       ELSE /\ workspaces' = {IF w \in WorkspaceByUuid(id, uuid) THEN SetFinished(w) ELSE w :
                                 w \in workspaces}
            /\ last' = [Ret("publish_workspace_private", id, uuid, "Ok")
                           EXCEPT !.found = WorkspaceByUuid(id, uuid)]

\* a status check that lets a New workspace through
PublicCheckNoNew(w) == IF w.status = Published THEN "AlreadyPublished" ELSE "Ok"

\* the status check of publish_workspace_public: the error it returns, or "Ok"
PublicCheck(w) ==
    IF w.status = Published THEN "AlreadyPublished"
    ELSE IF w.status = New THEN "Unspecified"
    ELSE "Ok"

\* the row update of publish_workspace_public
SetPublished(w) == [w EXCEPT !.status = Published, !.publication_time = now]

publish_workspace_public(id, uuid) ==
    /\ UNCHANGED <<techniques, next_uuid, now, queueVars, mailVars>>
    /\ IF id \notin Registered
       THEN /\ last' = Ret("publish_workspace_public", id, uuid, "NotRegistered")
            /\ UNCHANGED workspaces
       ELSE IF WorkspaceByUuid(id, uuid) = {}
       THEN /\ last' = Ret("publish_workspace_public", id, uuid, "Unspecified")
            /\ UNCHANGED workspaces
       ELSE LET tech_workspace == CHOOSE w \in WorkspaceByUuid(id, uuid) : TRUE IN
            IF PublicCheck(tech_workspace) # "Ok"
            THEN /\ last' = Ret("publish_workspace_public", id, uuid, PublicCheck(tech_workspace))
                 /\ UNCHANGED workspaces
            ELSE /\ workspaces' = (workspaces \ {tech_workspace})
                                     \cup {SetPublished(tech_workspace)}
                 /\ last' = Ret("publish_workspace_public", id, uuid, "Ok")

\* the row update of unpublish_workspace
SetUnpublished(w) == [w EXCEPT !.status = Finished, !.publication_time = Null]

\* the query of unpublish_workspace has no ORDER BY: with several Published
\* rows, first() may return any of them
unpublish_workspace(id) ==
    /\ UNCHANGED <<techniques, next_uuid, now, queueVars, mailVars>>
    /\ IF id \notin Registered
       THEN /\ last' = Ret("unpublish_workspace", id, 0, "NotRegistered")
            /\ UNCHANGED workspaces
       ELSE IF {w \in WorkspacesOf(id) : w.status = Published} = {}
       THEN /\ last' = Ret("unpublish_workspace", id, 0, "Unspecified")
            /\ UNCHANGED workspaces
       ELSE \E tech_workspace \in {w \in WorkspacesOf(id) : w.status = Published} :
            /\ workspaces' = (workspaces \ {tech_workspace})
                                \cup {SetUnpublished(tech_workspace)}
            /\ last' = Ret("unpublish_workspace", id, tech_workspace.uuid, "Ok")

(***************************************************************************)
(* Task queue.                                                             *)
(***************************************************************************)
\* Task::get_type: the kind a consumer reads from a row's task_type
get_type(i) ==
    IF Build = i THEN Build
    ELSE IF PublishResults = i THEN PublishResults
    ELSE RunBenchmark

\* Technique::get_priority_tasks
get_priority_tasks(id) == {t \in priority_tasks : t.technique_id = id}

\* Technique::get_normal_tasks
get_normal_tasks(id) == {t \in normal_tasks : t.technique_id = id}

\* an admission test of push_build_task that never finds a pending task
PriorityPendingNever(id) == FALSE

\* the admission test of push_build_task: tasks.len() > 0
PriorityPending(id) == get_priority_tasks(id) # {}

\* an admission test that never finds a pending task
NormalPendingNever(id) == FALSE

\* the admission test of push_run_task and push_publish_task: tasks.len() > 0
NormalPending(id) == get_normal_tasks(id) # {}

\* the id the table's INTEGER PRIMARY KEY gives an inserted row
NextId(table) == IF table = {} THEN 1 ELSE 1 + CHOOSE m \in {t.id : t \in table} :
                                                  \A t \in table : t.id <= m

\* the row an insert_into adds
NewTask(table, id, task_type, task_data) ==
    [id |-> NextId(table), technique_id |-> id, task_type |-> task_type, task_data |-> task_data]

push_build_task(id) ==
    /\ UNCHANGED <<regVars, now, normal_tasks, delivered, mailVars>>
    /\ IF id \notin Registered
       THEN /\ last' = Ret("push_build_task", id, 0, "NotRegistered")
            /\ UNCHANGED priority_tasks
       ELSE IF PriorityPending(id)
       THEN /\ last' = Ret("push_build_task", id, 0, "Unspecified")
            /\ UNCHANGED priority_tasks
       ELSE /\ priority_tasks' = priority_tasks \cup {NewTask(priority_tasks, id, Build, Null)}
            /\ last' = Ret("push_build_task", id, 0, "Ok")

\* push_run_task stores TaskType::Build as the row's task_type
push_run_task(id) ==
    /\ UNCHANGED <<regVars, now, priority_tasks, delivered, mailVars>>
    /\ IF id \notin Registered
       THEN /\ last' = Ret("push_run_task", id, 0, "NotRegistered")
            /\ UNCHANGED normal_tasks
       ELSE IF NormalPending(id)
       THEN /\ last' = Ret("push_run_task", id, 0, "Unspecified")
            /\ UNCHANGED normal_tasks
       ELSE /\ normal_tasks' = normal_tasks \cup {NewTask(normal_tasks, id, Build, Null)}
            /\ last' = Ret("push_run_task", id, 0, "Ok")

push_publish_task(id, uuid) ==
    /\ UNCHANGED <<regVars, now, priority_tasks, delivered, mailVars>>
    /\ IF id \notin Registered
       THEN /\ last' = Ret("push_publish_task", id, uuid, "NotRegistered")
            /\ UNCHANGED normal_tasks
       ELSE IF NormalPending(id)
       THEN /\ last' = Ret("push_publish_task", id, uuid, "Unspecified")
            /\ UNCHANGED normal_tasks
       ELSE /\ normal_tasks' = normal_tasks \cup
                   {NewTask(normal_tasks, id, PublishResults, uuid)}
            /\ last' = Ret("push_publish_task", id, uuid, "Ok")

\* order(id).limit(1): the rows the query loads (none or the lowest-id one)
FirstRow(table) == {t \in table : \A o \in table : t.id <= o.id}

Some(table, t) ==
    [table |-> table, id |-> t.id, technique_id |-> t.technique_id, task_type |-> t.task_type]

\* the rows pop_next_task leaves in a table it took row t from: its
\* transaction issues no delete
AfterPop(table, t) == table

pop_next_task ==
    /\ Len(delivered) < MaxPops
    /\ UNCHANGED <<regVars, now, mailVars>>
    /\ IF FirstRow(priority_tasks) # {}
       THEN LET t == CHOOSE r \in FirstRow(priority_tasks) : TRUE IN
            /\ delivered' = Append(delivered, Some("priority", t))
            /\ priority_tasks' = AfterPop(priority_tasks, t)
            /\ UNCHANGED normal_tasks
            /\ last' = Ret("pop_next_task", t.technique_id, 0, "Some")
       ELSE IF FirstRow(normal_tasks) # {}
       THEN LET t == CHOOSE r \in FirstRow(normal_tasks) : TRUE IN
            /\ delivered' = Append(delivered, Some("normal", t))
            /\ normal_tasks' = AfterPop(normal_tasks, t)
            /\ UNCHANGED priority_tasks
            /\ last' = Ret("pop_next_task", t.technique_id, 0, "Some")
       ELSE /\ delivered' = Append(delivered, NoTask)
            /\ UNCHANGED <<priority_tasks, normal_tasks>>
            /\ last' = Ret("pop_next_task", 0, 0, "None")

(***************************************************************************)
(* Mail queue and mailer.                                                  *)
(***************************************************************************)
\* push_msg_task: a plain insert; msg stands for the (to, subject, text) of
\* the call, numbered in call order
push_msg_task ==
    /\ pushed < MaxMsgs
    /\ message_tasks' = message_tasks \cup
           {[id |-> NextId(message_tasks), msg |-> pushed + 1]}
    /\ pushed' = pushed + 1
    /\ last' = Ret("push_msg_task", 0, 0, "Ok")
    /\ UNCHANGED <<regVars, now, queueVars, mailer, sent>>

\* a query that loads the newest row
NextMessageNewest == {t \in message_tasks : \A o \in message_tasks : t.id >= o.id}

\* order(message_tasks::dsl::id).limit(1): the rows read_next_message and
\* pop_next_message load
NextMessage == FirstRow(message_tasks)

\* the mailer's outer loop: read_next_message, then the send loop or the sleep
read_next_message ==
    /\ mailer.pc = "read"
    /\ IF NextMessage # {}
       THEN /\ mailer' = [pc |-> "send", msg |-> CHOOSE t \in NextMessage : TRUE,
                          retried |-> FALSE]
            /\ last' = Ret("read_next_message", 0, 0, "Some")
       ELSE /\ UNCHANGED mailer
            /\ last' = Ret("read_next_message", 0, 0, "None")
    /\ UNCHANGED <<regVars, now, queueVars, message_tasks, pushed, sent>>

\* a mailer that goes on to pop_next_message whatever client.send returned
AfterSendAlwaysPop(ok) == "pop"

\* where the send loop goes after client.send: to pop_next_message if
\* result.is_ok(), else round the loop to the next send
AfterSend(ok) == IF ok THEN "pop" ELSE "send"

\* one client.send of the held message; ok is what the SMTP server answers
client_send(ok) ==
    /\ mailer.pc = "send"
    /\ mailer' = [mailer EXCEPT !.pc = AfterSend(ok),
                                !.retried = IF ok THEN @ ELSE TRUE]
    /\ sent' = IF ok THEN Append(sent, mailer.msg) ELSE sent
    /\ last' = Ret("send", 0, 0, IF ok THEN "Ok" ELSE "Err")
    /\ UNCHANGED <<regVars, now, queueVars, message_tasks, pushed>>

\* pop_next_message, and what the mailer does with its result: break to the
\* outer loop, or panic
pop_next_message ==
    /\ mailer.pc = "pop"
    /\ IF NextMessage = {}
       THEN /\ UNCHANGED message_tasks
            /\ mailer' = [mailer EXCEPT !.pc = "panicked"]
            /\ last' = Ret("pop_next_message", 0, 0, "Unspecified")
       ELSE /\ message_tasks' = message_tasks \ NextMessage
            /\ mailer' = [mailer EXCEPT !.pc = "read"]
            /\ last' = Ret("pop_next_message", 0, 0, "Ok")
    /\ UNCHANGED <<regVars, now, queueVars, pushed, sent>>

(***************************************************************************)
(* RPC: errors on the wire, and the server's accept loop.                  *)
(***************************************************************************)
\* fbksd_core::register: whatever error db::register returns, the caller gets
\* Error::Unspecified
core_register(ret) == IF ret # "Ok" THEN "Unspecified" ELSE "Ok"

\* the variants of error::Error that msgs::Error::from turns into Logic
DomainErrors ==
    {"NameAlreadyExists", "NotRegistered", "InvalidInfoFile", "AlreadyPublished",
     "MaxWorkspacesExceeded"}

\* impl From<Core_error> for msgs::Error; Logic carries err.to_string()
FromCore(err) ==
    IF err \in DomainErrors THEN [kind |-> "Logic", msg |-> err]
    ELSE [kind |-> "Internal", msg |-> ""]

\* MsgResult values on the wire
RespOk(text) == [kind |-> "Ok", msg |-> text]
RespInvalid == [kind |-> "InvalidMessage", msg |-> ""]

\* the requests a client writes: Msg values, and bytes that are no Msg
Requests ==
    {[kind |-> "Register", id |-> i, versions |-> v] : i \in TechIds, v \in VersionLists}
    \cup {[kind |-> "InitMissingScenesWP", id |-> i, versions |-> <<>>] : i \in TechIds}
    \cup {[kind |-> "End", id |-> 0, versions |-> <<>>],
          [kind |-> "Invalid", id |-> 0, versions |-> <<>>]}

\* TcpStream::connect: the kernel completes the handshake and queues the
\* connection for listener.incoming()
connect(c) ==
    /\ conn[c].state = "none"
    /\ conn' = [conn EXCEPT ![c].state = "queued"]
    /\ backlog' = Append(backlog, c)
    /\ UNCHANGED <<server, last>>

\* a client writes one request and then waits for its response (client.rs);
\* it can still write on a connection the server has closed
send(c, req) ==
    /\ conn[c].state \in {"queued", "open", "closed"}
    /\ conn[c].pending = <<>>
    /\ conn[c].nsent < MaxReqs
    /\ conn' = [conn EXCEPT ![c].pending = <<req>>, ![c].nsent = @ + 1]
    /\ UNCHANGED <<backlog, server, last>>

\* for stream in listener.incoming(): the next connection, once the loop of
\* the previous one has ended
accept ==
    /\ server.pc = "accept"
    /\ backlog # <<>>
    /\ server' = [pc |-> "serve", c |-> Head(backlog)]
    /\ backlog' = Tail(backlog)
    /\ conn' = [conn EXCEPT ![Head(backlog)].state = "open"]
    /\ UNCHANGED last

\* the end of the loop body: break if the response was an Err
AfterResponse(resp) == IF resp.kind = "Ok" THEN "serve" ELSE "accept"

\* the server has read request req from the connection it serves
Serving(c, kind) ==
    /\ server.pc = "serve"
    /\ server.c = c
    /\ conn[c].pending # <<>>
    /\ conn[c].pending[1].kind = kind

\* to_writer(&stream, &res), then break on Err: the response goes out and the
\* stream is dropped if it was an error
respond(c, resp) ==
    /\ conn' = [conn EXCEPT ![c].pending = <<>>,
                            ![c].resps = Append(@, resp),
                            ![c].state = IF AfterResponse(resp) = "serve"
                                         THEN "open" ELSE "closed"]
    /\ server' = IF AfterResponse(resp) = "serve" THEN server
                 ELSE [pc |-> "accept", c |-> 0]
    /\ UNCHANGED backlog

\* Msg::End: break without a response
handle_end(c) ==
    /\ Serving(c, "End")
    /\ conn' = [conn EXCEPT ![c].pending = <<>>, ![c].state = "closed"]
    /\ server' = [pc |-> "accept", c |-> 0]
    /\ UNCHANGED <<backlog, last>>

\* Msg::deserialize failed: unwrap_or(Msg::Invalid)
handle_invalid(c) ==
    /\ Serving(c, "Invalid")
    /\ respond(c, RespInvalid)
    /\ UNCHANGED last

\* Msg::Register: fbksd_core::register, its error converted for the wire
handle_register(c) ==
    /\ Serving(c, "Register")
    /\ LET req == conn[c].pending[1] IN
       /\ register(req.id, OwnType(req.id), OwnName(req.id), req.versions)
       /\ respond(c, IF core_register(last'.ret) = "Ok" THEN RespOk("Registered.")
                     ELSE FromCore(core_register(last'.ret)))

\* Msg::InitMissingScenesWP: technique_type(id).unwrap() ends the server
\* process for an id that is not registered; otherwise the scratch workspace
\* is wiped and the answer depends on the scenes found on disk
handle_init_missing(c, out) ==
    /\ Serving(c, "InitMissingScenesWP")
    /\ UNCHANGED <<regVars, now, queueVars, mailVars, last>>
    /\ IF conn[c].pending[1].id \notin Registered
       THEN /\ server' = [pc |-> "dead", c |-> 0]
            /\ conn' = [d \in Conns |->
                           IF conn[d].state = "none" THEN conn[d]
                           ELSE [conn[d] EXCEPT !.state = "closed",
                                                !.pending = IF d = c THEN <<>> ELSE @]]
            /\ UNCHANGED <<backlog, written>>
       ELSE /\ respond(c, out)
            /\ written' = [written EXCEPT !["scratch"] = c]

(***************************************************************************)
(* The lock file and the commands of fbksd-ci and fbksd-ctl.               *)
(***************************************************************************)
\* the commands that work on the data directory
Cmds ==
    {"ci_run", "ci_publish", "ci_delete", "ctl_run_all", "ctl_update_page",
     "ctl_unpublish", "ctl_update_scenes", "ctl_trim"}

\* how a command takes the lock: flock! and FLock::new block, try_flock! does
\* not, update-page and unpublish take none
LockKind(cmd) ==
    CASE cmd \in {"ci_run", "ci_publish", "ci_delete", "ctl_run_all"} -> "block"
      [] cmd \in {"ctl_update_scenes", "ctl_trim"} -> "try"
      [] OTHER -> "none"

\* the commands that build the scratch workspace D/tmp/workspace (ci publish
\* through the InitMissingScenesWP request it sends)
ScratchCmds == {"ci_run", "ci_publish", "ctl_run_all"}

\* the directories a command changes besides the scratch workspace
Writes(cmd) == IF cmd = "ctl_update_scenes" THEN {"scenes"} ELSE {"public"}

\* positions inside the body of a command
InBlock == {"body", "use", "end"}

\* a command is started in process p
start(p, cmd) ==
    /\ proc[p].pc = "idle"
    /\ proc' = [proc EXCEPT ![p] =
                   [cmd |-> cmd,
                    pc |-> CASE LockKind(cmd) = "block" -> "wait"
                             [] LockKind(cmd) = "try" -> "try"
                             [] OTHER -> "body"]]
    /\ UNCHANGED <<flock, written>>

\* FLock::new: lock_exclusive returns once no other process holds the lock
lock(p) ==
    /\ proc[p].pc = "wait"
    /\ flock = 0
    /\ flock' = p
    /\ proc' = [proc EXCEPT ![p].pc = "body"]
    /\ UNCHANGED written

\* a try_new that waits for the lock when it is taken
TryOutcomeBlocking(free) == IF free THEN "body" ELSE "wait"

\* FLock::try_new and the test of try_flock!: the body with the lock, or the
\* second block without it
TryOutcome(free) == IF free THEN "body" ELSE "skipped"

\* try_flock!(x, y)
try_lock(p) ==
    /\ proc[p].pc = "try"
    /\ proc' = [proc EXCEPT ![p].pc = TryOutcome(flock = 0)]
    /\ flock' = IF flock = 0 THEN p ELSE flock
    /\ UNCHANGED written

\* a scratch directory that keeps what the previous command left in it
ScratchKept(p, old) == IF old = 0 THEN p ELSE old

\* remove_dir_all and create_dir_all of the scratch workspace: what is in it
\* afterwards is the new command's
ScratchAfterWipe(p, old) == p

\* the first step of a command that uses the scratch workspace
wipe(p) ==
    /\ proc[p].pc = "body"
    /\ proc[p].cmd \in ScratchCmds
    /\ written' = [written EXCEPT !["scratch"] = ScratchAfterWipe(p, @)]
    /\ proc' = [proc EXCEPT ![p].pc = "use"]
    /\ UNCHANGED flock

\* the benchmark runs in the scratch workspace and its results are saved
use(p) ==
    /\ proc[p].pc = "use"
    /\ written' = [d \in Dirs |-> IF d \in Writes(proc[p].cmd) THEN p ELSE written[d]]
    /\ proc' = [proc EXCEPT ![p].pc = "end"]
    /\ UNCHANGED flock

\* the body of a command that does not use the scratch workspace
work(p) ==
    /\ proc[p].pc = "body"
    /\ proc[p].cmd \notin ScratchCmds
    /\ written' = [d \in Dirs |-> IF d \in Writes(proc[p].cmd) THEN p ELSE written[d]]
    /\ proc' = [proc EXCEPT ![p].pc = "end"]
    /\ UNCHANGED flock

\* the ways a command leaves its body
ExitPaths == {"return", "error", "panic", "exit"}

\* a lock that only the return at the end of the body releases
ReleaseOnReturn(how, p) == IF how = "return" THEN 0 ELSE p

\* the holder of the lock after process p left its body: Drop for FLock
\* unlocks on return and on unwinding, and the kernel drops the lock with the
\* file descriptor when the process ends
ReleaseOn(how, p) == 0

\* the body ends: at its end by return, anywhere by an error return, a panic
\* or process::exit
exit(p, how) ==
    /\ proc[p].pc \in InBlock
    /\ how = "return" <=> proc[p].pc = "end"
    /\ proc' = [proc EXCEPT ![p].pc = IF how = "return" THEN "done" ELSE "failed"]
    /\ flock' = IF flock = p THEN ReleaseOn(how, p) ELSE flock
    /\ UNCHANGED written

(***************************************************************************)
(* fbksd_core: the operations on the registry and the data directory.      *)
(***************************************************************************)
\* unpublished_days_limit of config.json, in days
unpublished_days_limit == 1

\* the result of an operation called in a process of kind by
Res(by, op, id, uuid, ret) == [OpRet(op, id, uuid, ret) EXCEPT !.by = by]

\* nothing is called in the database
NoDb == UNCHANGED <<regVars, now, queueVars, mailVars, last>>

\* register: db::register, any error replaced by Unspecified
lib_register(by, id, versions) ==
    /\ register(id, OwnType(id), OwnName(id), versions)
    /\ opres' = Res(by, "register", id, 0, core_register(last'.ret))
    /\ UNCHANGED <<published_links, private_pages, ws_dirs, public_data>>

\* save_results: the row first, then the workspace directory and the move of
\* the files out of the scratch workspace, which can fail
lib_save_results(by, id, moved) ==
    /\ add_workspace(id)
    /\ IF last'.ret # "Ok"
       THEN /\ opres' = Res(by, "save_results", id, 0, last'.ret)
            /\ UNCHANGED ws_dirs
       ELSE /\ ws_dirs' = ws_dirs \cup {last'.uuid}
            /\ opres' = Res(by, "save_results", id, last'.uuid,
                            IF moved THEN "Ok" ELSE "Unspecified")
    /\ UNCHANGED <<published_links, private_pages, public_data>>

\* publish_private: technique_type(id).unwrap(), info.json of the workspace
\* directory, the private page, then the row
lib_publish_private(by, id, uuid) ==
    /\ UNCHANGED <<published_links, ws_dirs, public_data>>
    /\ IF id \notin Registered
       THEN /\ opres' = Res(by, "publish_private", id, uuid, "panic")
            /\ NoDb
            /\ UNCHANGED private_pages
       ELSE IF uuid \notin ws_dirs
       THEN /\ opres' = Res(by, "publish_private", id, uuid, "Unspecified")
            /\ NoDb
            /\ UNCHANGED private_pages
       ELSE /\ private_pages' = private_pages \cup {uuid}
            /\ publish_workspace_private(id, uuid)
            /\ opres' = Res(by, "publish_private", id, uuid, last'.ret)

\* a publication that leaves a link that is already there as it is
LinkKept(id, uuid) ==
    IF \E l \in published_links : l[1] = id THEN published_links
    ELSE published_links \cup {<<id, uuid>>}

\* read_link, remove_file, symlink: the published link of the technique is
\* replaced by one to uuid
LinkTo(id, uuid) == {l \in published_links : l[1] # id} \cup {<<id, uuid>>}

\* publish_public: the row first; then the link, the previous public data
\* removed, the data of the private page moved in its place, and the private
\* page removed; a failure after the row leaves what was done so far
lib_publish_public(by, id, uuid) ==
    /\ publish_workspace_public(id, uuid)
    /\ IF last'.ret # "Ok"
       THEN /\ opres' = Res(by, "publish_public", id, uuid, last'.ret)
            /\ UNCHANGED <<published_links, private_pages, ws_dirs, public_data>>
       ELSE /\ published_links' = LinkTo(id, uuid)
            /\ UNCHANGED ws_dirs
            /\ IF uuid \notin ws_dirs
               THEN /\ opres' = Res(by, "publish_public", id, uuid, "Unspecified")
                    /\ UNCHANGED <<private_pages, public_data>>
               ELSE IF uuid \notin private_pages
               THEN /\ public_data' = {d \in public_data : d[1] # id}
                    /\ opres' = Res(by, "publish_public", id, uuid, "Unspecified")
                    /\ UNCHANGED private_pages
               ELSE /\ public_data' = {d \in public_data : d[1] # id} \cup {<<id, uuid>>}
                    /\ private_pages' = private_pages \ {uuid}
                    /\ opres' = Res(by, "publish_public", id, uuid, "Ok")

\* delete_unpublished_workspace: every step is unwrapped
lib_delete_unpublished_workspace(by, id, uuid) ==
    /\ remove_workspace(id, uuid)
    /\ UNCHANGED <<published_links, public_data>>
    /\ IF last'.ret # "Ok"
       THEN /\ opres' = Res(by, "delete_unpublished_workspace", id, uuid, "panic")
            /\ UNCHANGED <<ws_dirs, private_pages>>
       ELSE /\ ws_dirs' = ws_dirs \ {uuid}
            /\ private_pages' = IF uuid \in ws_dirs THEN private_pages \ {uuid}
                                ELSE private_pages
            /\ opres' = Res(by, "delete_unpublished_workspace", id, uuid,
                            IF uuid \in ws_dirs /\ uuid \in private_pages
                            THEN "Ok" ELSE "panic")

\* db::get_unpub_older_than, over both kinds
get_unpub_older_than ==
    {w \in workspaces :
        w.status = Finished /\ w.finish_time <= now - unpublished_days_limit}

\* db::get_unpublished: the rows of the technique with status Finished
get_unpublished(id) == {w \in WorkspacesOf(id) : w.status = Finished}

\* can_run: get_unpublished(id).unwrap().len() against max_num_workspaces;
\* the database is read only
lib_can_run(by, id) ==
    /\ NoDb
    /\ UNCHANGED <<published_links, private_pages, ws_dirs, public_data>>
    /\ opres' = Res(by, "can_run", id, 0,
                    IF id \notin Registered THEN "panic"
                    ELSE IF Cardinality(get_unpublished(id)) >= MAX_WS THEN "false"
                    ELSE "true")

\* a trim that deletes rows and leaves num_workspaces as it is
NumKept(num, rows) == num

\* num_workspaces after db::remove_workspace was called for each of the rows
NumAfterRemoving(num, rows) == num - Cardinality(rows)

\* trim_unpublished: for each workspace found, in the order of the query, the
\* workspace directory, the private page and then the row; the first one of
\* them that is missing ends the process
lib_trim_unpublished(by) ==
    LET to_delete == get_unpub_older_than
        missing == {w \in to_delete : w.uuid \notin ws_dirs \/ w.uuid \notin private_pages}
        stop == IF missing = {} THEN MaxUuid + 1
                ELSE CHOOSE u \in {w.uuid : w \in missing} :
                        \A v \in {w.uuid : w \in missing} : u <= v
        removed == {w \in to_delete : w.uuid < stop}
    IN  /\ workspaces' = workspaces \ removed
        /\ techniques' = [i \in Registered |->
               [techniques[i] EXCEPT !.num_workspaces =
                   NumAfterRemoving(@, {w \in removed : w.technique_id = i})]]
        /\ ws_dirs' = ws_dirs \ ({w.uuid : w \in removed} \cup {stop})
        /\ private_pages' = private_pages \ {w.uuid : w \in removed}
        /\ last' = Ret("trim_unpublished", 0, 0, "Ok")
        /\ opres' = Res(by, "trim_unpublished", 0, 0,
                        IF missing = {} THEN "Ok" ELSE "panic")
        /\ UNCHANGED <<next_uuid, now, queueVars, mailVars, published_links, public_data>>

\* unpublish_technique: db::unpublish_workspace(id).unwrap(), then the
\* published link and the public data of the technique are removed
\* (workspace::unpublish_technique), unwrapped as well
lib_unpublish_technique(by, id) ==
    /\ unpublish_workspace(id)
    /\ UNCHANGED <<private_pages, ws_dirs>>
    /\ IF last'.ret # "Ok"
       THEN /\ opres' = Res(by, "unpublish_technique", id, 0, "panic")
            /\ UNCHANGED <<published_links, public_data>>
       ELSE IF ~ \E l \in published_links : l[1] = id
       THEN /\ opres' = Res(by, "unpublish_technique", id, last'.uuid, "panic")
            /\ UNCHANGED <<published_links, public_data>>
       ELSE /\ published_links' = {l \in published_links : l[1] # id}
            /\ public_data' = IF last'.uuid \in ws_dirs
                              THEN {d \in public_data : d[1] # id} ELSE public_data
            /\ opres' = Res(by, "unpublish_technique", id, last'.uuid,
                            IF last'.uuid \in ws_dirs /\ \E d \in public_data : d[1] = id
                            THEN "Ok" ELSE "panic")

\* the calls in the database that change rows inside conn.transaction; trim
\* removes its rows through remove_workspace
InTransaction(op) == op \in {"add_workspace", "remove_workspace", "trim_unpublished"}

(***************************************************************************)
(* fbksd-consumer.                                                         *)
(***************************************************************************)
\* the address the consumer writes its status mails to
ConsumerMailTo == "maneh@musicalnr.com"

\* Command::status() of docker run: Err only if the command could not be
\* started; a container that ran gives Ok(ExitStatus), whatever its status
RunResult(outcome) == IF outcome = "not_started" THEN "Err" ELSE "Ok"

\* the text build() queues for the result of Docker::run
MailText(result) == IF result = "Ok" THEN "Task succeeded." ELSE "Task failed."

\* main: one pass of the loop. pop_next_task; without a task the process
\* sleeps and polls again; with a task execute_task is called: a Build task
\* starts the fbksd-ci container with "build", the two other kinds do
\* nothing, and main returns
consumer_poll ==
    /\ consumer.pc = "poll"
    /\ pop_next_task
    /\ IF last'.ret = "Some"
       THEN LET task == delivered'[Len(delivered')] IN
            consumer' = [consumer EXCEPT
                            !.task = task,
                            !.pc = IF get_type(task.task_type) = Build
                                   THEN "run" ELSE "exited"]
       ELSE UNCHANGED consumer

\* build: docker run has returned; the mail is queued, execute_task returns
\* and main returns
consumer_container_exit(outcome) ==
    /\ consumer.pc = "run"
    /\ push_msg_task
    /\ consumer' = [consumer EXCEPT
                       !.pc = "exited",
                       !.runs = Append(@, [task_type |-> get_type(consumer.task.task_type),
                                           cmd |-> "build", exit |-> outcome]),
                       !.mails = Append(@, [to |-> ConsumerMailTo,
                                            text |-> MailText(RunResult(outcome))])]

(***************************************************************************)
(* Scenes: the results of one workspace of one project, its private page   *)
(* and the scratch workspace built for the scenes it has no results for.   *)
(***************************************************************************)
Scenes == 1..MaxScenes

\* the project whose workspace is followed
SceneProject == 1

\* Technique::scenes: the scenes a set of result files covers
ScenesOf(files) == {f.scene : f \in files}

\* the result files a benchmark configured with the scenes cfg writes
Benchmarked(cfg) == {[scene |-> s, of |-> cfg] : s \in cfg}

\* a scratch workspace configured with every scene of the corpus
MissingScenesAll(all_scenes, tech_scenes) == all_scenes

\* all_scenes.difference(&tech_scenes)
MissingScenes(all_scenes, tech_scenes) == all_scenes \ tech_scenes

\* rsync -a --ignore-existing src/ dest/: the files of scenes dest has stay
\* as they are, the others are added
IgnoreExisting(dest, src) == dest \cup {f \in src : f.scene \notin ScenesOf(dest)}

\* export_technique_images(src, dest, true): rsync --delete --ignore-existing
ExportImages(dest, src) ==
    IgnoreExisting({f \in dest : f.scene \in ScenesOf(src)}, src)

\* the step leaves everything but the scene state as it is
SceneOp(op, ret) ==
    /\ scn_ret' = [op |-> op, ret |-> ret]
    /\ UNCHANGED <<regVars, now, queueVars, mailVars, last>>

\* workspace::update_scenes after a scene was added to the scenes folder
update_scenes(s) ==
    /\ corpus' = corpus \cup {s}
    /\ SceneOp("update_scenes", "Ok")
    /\ UNCHANGED <<tech_results, page_results, scratch>>

\* fbksd-ci run: the benchmark on every scene of the corpus in a wiped scratch
\* workspace, save_results and publish_private
ci_run ==
    /\ ~ tech_results.saved
    /\ UNCHANGED corpus
    /\ IF SceneProject \notin Registered
       THEN /\ SceneOp("ci_run", "NotRegistered")
            /\ scratch' = [EmptyScratch EXCEPT !.scenes = corpus,
                                                !.techniques = {OwnName(SceneProject)},
                                                !.results = Benchmarked(corpus)]
            /\ UNCHANGED <<tech_results, page_results>>
       ELSE /\ tech_results' = [saved |-> TRUE, files |-> Benchmarked(corpus)]
            /\ page_results' = Benchmarked(corpus)
            /\ scratch' = [EmptyScratch EXCEPT !.scenes = corpus,
                                                !.techniques = {OwnName(SceneProject)}]
            /\ SceneOp("ci_run", "Ok")

\* init_missing_scenes_workspace and create_tmp_technique_workspace: the
\* scratch workspace is wiped; without the workspace's info.json the call
\* fails; without missing scenes it answers NO_SCENE; otherwise the config is
\* generated for the missing scenes and this technique, and the binaries are
\* copied, which can fail
init_missing_scenes_workspace(copied) ==
    /\ UNCHANGED <<corpus, tech_results, page_results>>
    /\ IF SceneProject \notin Registered
       THEN SceneOp("init_missing", "panic") /\ UNCHANGED scratch
       ELSE IF ~ tech_results.saved
       THEN SceneOp("init_missing", "Internal") /\ scratch' = EmptyScratch
       ELSE LET missing_scenes == MissingScenes(corpus, ScenesOf(tech_results.files)) IN
            IF missing_scenes = {}
            THEN SceneOp("init_missing", "NO_SCENE") /\ scratch' = EmptyScratch
            ELSE /\ scratch' = [scenes |-> missing_scenes,
                                techniques |-> {OwnName(SceneProject)},
                                results |-> {}]
                 /\ SceneOp("init_missing", IF copied THEN "" ELSE "Internal")

\* fbksd run and fbksd results compute in the scratch workspace (ci publish)
benchmark ==
    /\ scratch.scenes # {}
    /\ scratch.results = {}
    /\ scratch' = [scratch EXCEPT !.results = Benchmarked(scratch.scenes)]
    /\ SceneOp("benchmark", "Ok")
    /\ UNCHANGED <<corpus, tech_results, page_results>>

\* update_results: save_technique_tmp_workspace(.., false, false), which
\* unwraps the info.json of the scratch workspace, then the images of the
\* workspace are exported to the private page
update_results ==
    /\ UNCHANGED <<corpus, scratch>>
    /\ IF SceneProject \notin Registered \/ scratch.techniques = {} \/ ~ tech_results.saved
       THEN SceneOp("update_results", "panic") /\ UNCHANGED <<tech_results, page_results>>
       ELSE /\ tech_results' = [tech_results EXCEPT
                                   !.files = IgnoreExisting(@, scratch.results)]
            /\ page_results' = ExportImages(page_results, tech_results'.files)
            /\ SceneOp("update_results", "Ok")

(***************************************************************************)
(* The registry under any sequence of calls, all made at one clock value.  *)
(***************************************************************************)
\* register called by project id with its own info.json
Register ==
    \E id \in TechIds, v \in VersionLists :
        register(id, OwnType(id), OwnName(id), v) /\ UNCHANGED <<fsVars, rpcVars, lockVars, consVars, sceneVars>>
AddWorkspace == \E id \in TechIds : add_workspace(id) /\ UNCHANGED <<fsVars, rpcVars, lockVars, consVars, sceneVars>>
RemoveWorkspace == \E id \in TechIds, u \in Uuids : remove_workspace(id, u) /\ UNCHANGED <<fsVars, rpcVars, lockVars, consVars, sceneVars>>
PublishPrivate == \E id \in TechIds, u \in Uuids : publish_workspace_private(id, u) /\ UNCHANGED <<fsVars, rpcVars, lockVars, consVars, sceneVars>>
PublishPublic == \E id \in TechIds, u \in Uuids : publish_workspace_public(id, u) /\ UNCHANGED <<fsVars, rpcVars, lockVars, consVars, sceneVars>>
Unpublish == \E id \in TechIds : unpublish_workspace(id) /\ UNCHANGED <<fsVars, rpcVars, lockVars, consVars, sceneVars>>

NextRegistry ==
    \/ Register
    \/ AddWorkspace
    \/ RemoveWorkspace
    \/ PublishPrivate
    \/ PublishPublic
    \/ Unpublish

SpecRegistry == Init /\ [][NextRegistry]_vars

(***************************************************************************)
(* Two projects call the registry, each with uuids of either.              *)
(***************************************************************************)
\* ProjectInfo::id of the two projects
ProjectA == 1
ProjectB == 2
Projects == {ProjectA, ProjectB}

RegisterProject ==
    \E id \in Projects, v \in VersionLists :
        register(id, OwnType(id), OwnName(id), v) /\ UNCHANGED <<fsVars, rpcVars, lockVars, consVars, sceneVars>>
AddWorkspaceOf == \E id \in Projects : add_workspace(id) /\ UNCHANGED <<fsVars, rpcVars, lockVars, consVars, sceneVars>>
RemoveWorkspaceAs == \E id \in Projects, u \in Uuids : remove_workspace(id, u) /\ UNCHANGED <<fsVars, rpcVars, lockVars, consVars, sceneVars>>
PublishPrivateAs == \E id \in Projects, u \in Uuids : publish_workspace_private(id, u) /\ UNCHANGED <<fsVars, rpcVars, lockVars, consVars, sceneVars>>
PublishPublicAs == \E id \in Projects, u \in Uuids : publish_workspace_public(id, u) /\ UNCHANGED <<fsVars, rpcVars, lockVars, consVars, sceneVars>>

NextProjects ==
    \/ RegisterProject
    \/ AddWorkspaceOf
    \/ RemoveWorkspaceAs
    \/ PublishPrivateAs
    \/ PublishPublicAs

SpecProjects == Init /\ [][NextProjects]_vars

(***************************************************************************)
(* The task queue under any interleaving of the producers' pushes and the  *)
(* consumer's pops.                                                        *)
(***************************************************************************)
PushBuild == \E id \in TechIds : push_build_task(id) /\ UNCHANGED <<fsVars, rpcVars, lockVars, consVars, sceneVars>>
PushRun == \E id \in TechIds : push_run_task(id) /\ UNCHANGED <<fsVars, rpcVars, lockVars, consVars, sceneVars>>
PushPublish == \E id \in TechIds, u \in Uuids : push_publish_task(id, u) /\ UNCHANGED <<fsVars, rpcVars, lockVars, consVars, sceneVars>>
PopNext == pop_next_task /\ UNCHANGED <<fsVars, rpcVars, lockVars, consVars, sceneVars>>

NextQueue ==
    \/ Register
    \/ PushBuild
    \/ PushRun
    \/ PushPublish
    \/ PopNext

SpecQueue == Init /\ [][NextQueue]_vars

(***************************************************************************)
(* The workspaces of one project while the wall clock advances between    *)
(* the calls.                                                              *)
(***************************************************************************)
ClockProject == 1

ClockRegister == \E v \in VersionLists :
    register(ClockProject, OwnType(ClockProject), OwnName(ClockProject), v) /\ UNCHANGED <<fsVars, rpcVars, lockVars, consVars, sceneVars>>
ClockAddWorkspace == add_workspace(ClockProject) /\ UNCHANGED <<fsVars, rpcVars, lockVars, consVars, sceneVars>>
ClockRemoveWorkspace == \E u \in Uuids : remove_workspace(ClockProject, u) /\ UNCHANGED <<fsVars, rpcVars, lockVars, consVars, sceneVars>>
ClockPublishPrivate == \E u \in Uuids : publish_workspace_private(ClockProject, u) /\ UNCHANGED <<fsVars, rpcVars, lockVars, consVars, sceneVars>>
ClockPublishPublic == \E u \in Uuids : publish_workspace_public(ClockProject, u) /\ UNCHANGED <<fsVars, rpcVars, lockVars, consVars, sceneVars>>
ClockUnpublish == unpublish_workspace(ClockProject) /\ UNCHANGED <<fsVars, rpcVars, lockVars, consVars, sceneVars>>

NextClock ==
    \/ Tick
    \/ ClockRegister
    \/ ClockAddWorkspace
    \/ ClockRemoveWorkspace
    \/ ClockPublishPrivate
    \/ ClockPublishPublic
    \/ ClockUnpublish

SpecClock == Init /\ [][NextClock]_vars

(***************************************************************************)
(* The techniques table under any sequence of register calls: any project *)
(* may send any kind and any short name.                                   *)
(***************************************************************************)
RegIds == 1 .. (MaxTech + 1)
ShortNames == {OwnName(i) : i \in RegIds}

RegisterAny ==
    \E id \in RegIds, t \in {DENOISER, SAMPLER}, n \in ShortNames, v \in VersionLists :
        register(id, t, n, v) /\ UNCHANGED <<fsVars, rpcVars, lockVars, consVars, sceneVars>>

NextTechniques == RegisterAny

SpecTechniques == Init /\ [][NextTechniques]_vars

(***************************************************************************)
(* The mail queue under any interleaving of the workers' pushes with the   *)
(* steps of the one mailer process.                                        *)
(***************************************************************************)
PushMsg == push_msg_task /\ UNCHANGED <<fsVars, rpcVars, lockVars, consVars, sceneVars>>
MailerRead == read_next_message /\ UNCHANGED <<fsVars, rpcVars, lockVars, consVars, sceneVars>>
MailerSendOk == client_send(TRUE) /\ UNCHANGED <<fsVars, rpcVars, lockVars, consVars, sceneVars>>
MailerSendErr == client_send(FALSE) /\ UNCHANGED <<fsVars, rpcVars, lockVars, consVars, sceneVars>>
MailerPop == pop_next_message /\ UNCHANGED <<fsVars, rpcVars, lockVars, consVars, sceneVars>>

NextMail ==
    \/ PushMsg
    \/ MailerRead
    \/ MailerSendOk
    \/ MailerSendErr
    \/ MailerPop

SpecMail == Init /\ [][NextMail]_vars

\* the mailer process keeps running (its sleeps and calls return), and the
\* SMTP server does not refuse a message for ever
SpecMailFair ==
    /\ Init /\ [][NextMail]_vars
    /\ WF_vars(MailerRead)
    /\ WF_vars(MailerSendOk)
    /\ WF_vars(MailerPop)

(***************************************************************************)
(* The RPC server and its clients: client c owns connection c.             *)
(***************************************************************************)
Connect == \E c \in Conns :
    connect(c) /\ UNCHANGED <<regVars, now, queueVars, mailVars, fsVars, lockVars, consVars, sceneVars>>
Send == \E c \in Conns, req \in Requests :
    send(c, req) /\ UNCHANGED <<regVars, now, queueVars, mailVars, fsVars, lockVars, consVars, sceneVars>>
Accept == accept /\ UNCHANGED <<regVars, now, queueVars, mailVars, fsVars, lockVars, consVars, sceneVars>>
HandleEnd == \E c \in Conns :
    handle_end(c) /\ UNCHANGED <<regVars, now, queueVars, mailVars, fsVars, lockVars, consVars, sceneVars>>
HandleInvalid == \E c \in Conns :
    handle_invalid(c) /\ UNCHANGED <<regVars, now, queueVars, mailVars, fsVars, lockVars, consVars, sceneVars>>
HandleRegister == \E c \in Conns :
    handle_register(c) /\ UNCHANGED <<fsVars, lockVars, consVars, sceneVars>>
HandleInitMissing ==
    \E c \in Conns, out \in {RespOk(""), RespOk("NO_SCENE"), FromCore("Unspecified")} :
        handle_init_missing(c, out) /\ UNCHANGED <<fsVars, flock, proc, consVars, sceneVars>>

NextRpc ==
    \/ Connect
    \/ Send
    \/ Accept
    \/ HandleEnd
    \/ HandleInvalid
    \/ HandleRegister
    \/ HandleInitMissing

SpecRpc == Init /\ [][NextRpc]_vars

\* the server process runs whenever it has something to read or to accept;
\* nothing obliges a client to write
SpecRpcFair ==
    /\ Init /\ [][NextRpc]_vars
    /\ WF_vars(Accept)
    /\ WF_vars(HandleEnd)
    /\ WF_vars(HandleInvalid)
    /\ WF_vars(HandleRegister)
    /\ WF_vars(HandleInitMissing)

(***************************************************************************)
(* Commands of fbksd-ci and fbksd-ctl run side by side, one per process.   *)
(***************************************************************************)
Start == \E p \in Procs, cmd \in Cmds :
    start(p, cmd) /\ UNCHANGED <<regVars, now, queueVars, mailVars, fsVars, rpcVars, last, consVars, sceneVars>>
Lock(p) == lock(p) /\ UNCHANGED <<regVars, now, queueVars, mailVars, fsVars, rpcVars, last, consVars, sceneVars>>
TryLock == \E p \in Procs :
    try_lock(p) /\ UNCHANGED <<regVars, now, queueVars, mailVars, fsVars, rpcVars, last, consVars, sceneVars>>
Wipe == \E p \in Procs :
    wipe(p) /\ UNCHANGED <<regVars, now, queueVars, mailVars, fsVars, rpcVars, last, consVars, sceneVars>>
Use == \E p \in Procs :
    use(p) /\ UNCHANGED <<regVars, now, queueVars, mailVars, fsVars, rpcVars, last, consVars, sceneVars>>
Work == \E p \in Procs :
    work(p) /\ UNCHANGED <<regVars, now, queueVars, mailVars, fsVars, rpcVars, last, consVars, sceneVars>>
Exit == \E p \in Procs, how \in ExitPaths :
    exit(p, how) /\ UNCHANGED <<regVars, now, queueVars, mailVars, fsVars, rpcVars, last, consVars, sceneVars>>

NextLock ==
    \/ Start
    \/ \E p \in Procs : Lock(p)
    \/ TryLock
    \/ Wipe
    \/ Use
    \/ Work
    \/ Exit

SpecLock == Init /\ [][NextLock]_vars

\* every process keeps running: a body goes on to its end and leaves it, and
\* lock_exclusive returns in a process for which the lock stays free
SpecLockFair ==
    /\ Init /\ [][NextLock]_vars
    /\ \A p \in Procs : WF_vars(Lock(p))
    /\ WF_vars(TryLock)
    /\ WF_vars(Wipe)
    /\ WF_vars(Use)
    /\ WF_vars(Work)
    /\ WF_vars(Exit)

(***************************************************************************)
(* The library operations of one project, each called by the process that  *)
(* calls it in the repository: with their failures at one clock value, and *)
(* the runs without a failure as the days pass.                            *)
(***************************************************************************)
ServerRegister == \E v \in VersionLists :
    lib_register("server", ClockProject, v) /\ UNCHANGED <<rpcVars, lockVars, consVars, sceneVars>>
ProducerRegister == \E v \in VersionLists :
    lib_register("producer", ClockProject, v) /\ UNCHANGED <<rpcVars, lockVars, consVars, sceneVars>>
ServerSaveResults == \E moved \in BOOLEAN :
    lib_save_results("server", ClockProject, moved) /\ UNCHANGED <<rpcVars, lockVars, consVars, sceneVars>>
ServerPublishPrivate == \E u \in Uuids :
    lib_publish_private("server", ClockProject, u) /\ UNCHANGED <<rpcVars, lockVars, consVars, sceneVars>>
ServerPublishPublic == \E u \in Uuids :
    lib_publish_public("server", ClockProject, u) /\ UNCHANGED <<rpcVars, lockVars, consVars, sceneVars>>
ServerDeleteWorkspace == \E u \in Uuids :
    lib_delete_unpublished_workspace("server", ClockProject, u)
        /\ UNCHANGED <<rpcVars, lockVars, consVars, sceneVars>>
CtlTrim == lib_trim_unpublished("ctl") /\ UNCHANGED <<rpcVars, lockVars, consVars, sceneVars>>
CtlUnpublish ==
    lib_unpublish_technique("ctl", ClockProject) /\ UNCHANGED <<rpcVars, lockVars, consVars, sceneVars>>

NextPublish ==
    \/ ServerRegister
    \/ ProducerRegister
    \/ ServerSaveResults
    \/ ServerPublishPrivate
    \/ ServerPublishPublic
    \/ ServerDeleteWorkspace
    \/ CtlTrim
    \/ CtlUnpublish

SpecPublish == Init /\ [][NextPublish]_vars

\* the operation of the step returned Ok, and publish_private was called for
\* a New workspace, as ci run does right after save_results
Succeeded ==
    /\ opres'.ret = "Ok"
    /\ last'.op = "publish_workspace_private" => \A w \in last'.found : w.status = New

\* the runs in which every operation succeeds
NextPublishOk ==
    \/ Tick /\ Succeeded
    \/ ServerRegister /\ Succeeded
    \/ ProducerRegister /\ Succeeded
    \/ ServerSaveResults /\ Succeeded
    \/ ServerPublishPrivate /\ Succeeded
    \/ ServerPublishPublic /\ Succeeded
    \/ ServerDeleteWorkspace /\ Succeeded
    \/ CtlTrim /\ Succeeded
    \/ CtlUnpublish /\ Succeeded

SpecPublishOk == Init /\ [][NextPublishOk]_vars

ServerCanRun ==
    lib_can_run("server", ClockProject) /\ UNCHANGED <<rpcVars, lockVars, consVars, sceneVars>>

\* the library operations and the question ci run asks first
NextCanRun ==
    \/ ServerCanRun
    \/ NextPublish

SpecCanRun == Init /\ [][NextCanRun]_vars

\* workspaces are added, published, unpublished and, once old enough, removed
\* by trim, while the clock advances
NextWorkspaces ==
    \/ Tick
    \/ ServerRegister
    \/ ServerSaveResults
    \/ ServerPublishPrivate
    \/ ServerPublishPublic
    \/ CtlTrim
    \/ CtlUnpublish

SpecWorkspaces == Init /\ [][NextWorkspaces]_vars

\* the library operations while the clock advances
NextTrim ==
    \/ Tick
    \/ NextPublish

SpecTrim == Init /\ [][NextTrim]_vars

(***************************************************************************)
(* The producers' pushes and the consumer process.                         *)
(***************************************************************************)
ConsumerPoll ==
    consumer_poll /\ UNCHANGED <<fsVars, rpcVars, lockVars, sceneVars>>
ConsumerContainerExit == \E outcome \in {"not_started", "zero", "nonzero"} :
    consumer_container_exit(outcome) /\ UNCHANGED <<fsVars, rpcVars, lockVars, sceneVars>>

NextConsumer ==
    \/ Register
    \/ PushBuild
    \/ PushRun
    \/ PushPublish
    \/ ConsumerPoll
    \/ ConsumerContainerExit

SpecConsumer == Init /\ [][NextConsumer]_vars

\* the consumer process keeps running and the container it started exits
SpecConsumerFair ==
    /\ Init /\ [][NextConsumer]_vars
    /\ WF_vars(ConsumerPoll)
    /\ WF_vars(ConsumerContainerExit)

(***************************************************************************)
(* The scene corpus grows while a project is run and published.            *)
(***************************************************************************)
SceneRegister == \E v \in VersionLists :
    /\ register(SceneProject, OwnType(SceneProject), OwnName(SceneProject), v)
    /\ scn_ret' = [op |-> "register", ret |-> last'.ret]
    /\ UNCHANGED <<fsVars, rpcVars, lockVars, consVars, corpus, tech_results,
                   page_results, scratch>>
UpdateScenes == \E s \in Scenes :
    update_scenes(s) /\ UNCHANGED <<fsVars, rpcVars, lockVars, consVars>>
CiRun == ci_run /\ UNCHANGED <<fsVars, rpcVars, lockVars, consVars>>
InitMissingScenesWP == \E copied \in BOOLEAN :
    init_missing_scenes_workspace(copied) /\ UNCHANGED <<fsVars, rpcVars, lockVars, consVars>>
Benchmark == benchmark /\ UNCHANGED <<fsVars, rpcVars, lockVars, consVars>>
UpdateResults == update_results /\ UNCHANGED <<fsVars, rpcVars, lockVars, consVars>>

NextScenes ==
    \/ SceneRegister
    \/ UpdateScenes
    \/ CiRun
    \/ InitMissingScenesWP
    \/ Benchmark
    \/ UpdateResults

SpecScenes == Init /\ [][NextScenes]_vars

(***************************************************************************)
(* Properties of the registry.                                             *)
(***************************************************************************)
PublishedOf(id) == {w \in WorkspacesOf(id) : w.status = Published}
UnpublishedOf(id) == {w \in WorkspacesOf(id) : w.status \in {New, Finished}}

\* the step is the call op(id, uuid)
Called(op, id, uuid) == last'.op = op /\ last'.id = id /\ last'.uuid = uuid

\* C1: every technique has at most one workspace whose status is Published.
C1_AtMostOnePublished == \A id \in TechIds : Cardinality(PublishedOf(id)) <= 1

\* C2: a successful publish_workspace_public(id, u) leaves u the technique's
\* only Published workspace (a previously Published one is demoted in the
\* same step).
C2_PublishDemotesPrevious ==
    [][\A id \in TechIds, u \in Uuids :
          Called("publish_workspace_public", id, u) /\ last'.ret = "Ok"
          => {w.uuid : w \in {x \in workspaces' : x.technique_id = id /\ x.status = Published}}
                 = {u}]_vars

\* C6: every technique has at most MAX_WS workspaces whose status is New or
\* Finished.
C6_UnpublishedWithinCapacity ==
    \A id \in TechIds : Cardinality(UnpublishedOf(id)) <= MAX_WS

\* unpublish_workspace has just turned a Published workspace into the
\* technique's MAX_WS-th unpublished one
C6_Witness ==
    /\ last.op = "unpublish_workspace"
    /\ last.ret = "Ok"
    /\ Cardinality(UnpublishedOf(last.id)) = MAX_WS
    /\ \E w \in UnpublishedOf(last.id) : w.uuid = last.uuid /\ w.status = Finished

\* C7: add_workspace for a registered technique is rejected with
\* MaxWorkspacesExceeded exactly when the technique has MAX_WS or more
\* workspaces in status New or Finished (Published ones not counted);
\* otherwise it inserts one New row and increments num_workspaces.
C7_AdmissionCountsUnpublished ==
    [][\A id \in TechIds :
          last'.op = "add_workspace" /\ last'.id = id /\ id \in Registered
          => IF Cardinality(UnpublishedOf(id)) >= MAX_WS
             THEN /\ last'.ret = "MaxWorkspacesExceeded"
                  /\ workspaces' = workspaces
                  /\ techniques' = techniques
             ELSE /\ last'.ret = "Ok"
                  /\ workspaces' = workspaces \cup
                         {[technique_id |-> id, uuid |-> last'.uuid, status |-> New,
                           finish_time |-> Null, publication_time |-> Null]}
                  /\ Cardinality(workspaces') = Cardinality(workspaces) + 1
                  /\ techniques'[id].num_workspaces = techniques[id].num_workspaces + 1]_vars

\* C8: for a technique without a Published workspace, add_workspace with
\* MAX_WS workspaces present returns MaxWorkspacesExceeded and adds no row,
\* and add_workspace right after a remove_workspace that freed one of the
\* MAX_WS slots succeeds and adds one New row.
C8_CapacityBoundary ==
    [][\A id \in TechIds :
          last'.op = "add_workspace" /\ last'.id = id /\ id \in Registered
              /\ PublishedOf(id) = {}
          => /\ Cardinality(WorkspacesOf(id)) = MAX_WS
                => /\ last'.ret = "MaxWorkspacesExceeded"
                   /\ workspaces' = workspaces
             /\ (/\ last.op = "remove_workspace" /\ last.ret = "Ok" /\ last.id = id
                 /\ Cardinality(WorkspacesOf(id)) = MAX_WS - 1)
                => /\ last'.ret = "Ok"
                   /\ Cardinality(workspaces') = Cardinality(workspaces) + 1
                   /\ \E w \in workspaces' \ workspaces :
                         w.technique_id = id /\ w.uuid = last'.uuid /\ w.status = New]_vars

\* add_workspace is rejected at capacity after an earlier slot was freed by
\* remove_workspace and taken again (more uuids minted than slots)
C8_Witness ==
    /\ last.op = "add_workspace"
    /\ last.ret = "MaxWorkspacesExceeded"
    /\ last.id \in Registered
    /\ PublishedOf(last.id) = {}
    /\ Cardinality(WorkspacesOf(last.id)) = MAX_WS
    /\ \E w \in WorkspacesOf(last.id) : w.uuid > MAX_WS

\* C9: every status change of a workspace is New -> Finished,
\* Finished -> Published or Published -> Finished, the last one only by
\* unpublish_workspace and with publication_time cleared.
C9_AllowedTransitions ==
    [][\A w \in workspaces, x \in workspaces' :
          w.uuid = x.uuid /\ w.status # x.status
          => \/ w.status = New /\ x.status = Finished
             \/ w.status = Finished /\ x.status = Published
             \/ /\ w.status = Published /\ x.status = Finished
                /\ last'.op = "unpublish_workspace"
                /\ x.publication_time = Null]_vars

\* C10: publish_workspace_public on a New workspace returns an error and
\* leaves it New; on a Published one returns AlreadyPublished and changes
\* nothing; on a Finished one returns ok and sets status Published and
\* publication_time.
C10_PublishPublicByStatus ==
    [][\A id \in TechIds, u \in Uuids :
          Called("publish_workspace_public", id, u) /\ id \in Registered
          => \A w \in WorkspaceByUuid(id, u) :
                /\ w.status = New
                   => last'.ret \notin {"Ok", "AlreadyPublished"} /\ workspaces' = workspaces
                /\ w.status = Published
                   => last'.ret = "AlreadyPublished" /\ workspaces' = workspaces
                /\ w.status = Finished
                   => /\ last'.ret = "Ok"
                      /\ workspaces' = (workspaces \ {w}) \cup
                            {[w EXCEPT !.status = Published, !.publication_time = now]}
                      /\ now # Null]_vars

\* publish_workspace_public has just published a Finished workspace
C10_Witness ==
    /\ last.op = "publish_workspace_public"
    /\ last.ret = "Ok"
    /\ \E w \in WorkspaceByUuid(last.id, last.uuid) :
          w.status = Published /\ w.publication_time # Null /\ w.finish_time # Null

(***************************************************************************)
(* Properties of the task queue.                                           *)
(***************************************************************************)
\* the step is a pop_next_task call; its result is the last delivery
Popped == last'.op = "pop_next_task" /\ Len(delivered') = Len(delivered) + 1

\* C3: the row pop_next_task returns is deleted in the same transaction, and
\* no task is returned by two pop_next_task calls.
C3_AtMostOnceDelivery ==
    [][Popped /\ delivered'[Len(delivered')].table # "none"
       => LET d == delivered'[Len(delivered')] IN
          /\ \A t \in (IF d.table = "priority" THEN priority_tasks' ELSE normal_tasks') :
                t.id # d.id
          /\ \A i \in 1..Len(delivered) :
                ~ (delivered[i].table = d.table /\ delivered[i].id = d.id)]_vars

\* C4: pop_next_task returns the lowest-id row of the high-priority table if
\* there is one, otherwise the lowest-id row of the normal table, otherwise
\* no task; successive calls with no push in between therefore return
\* different tasks, high before normal and in increasing id order.
C4_PriorityThenFifo ==
    [][Popped
       => LET d == delivered'[Len(delivered')] IN
          /\ IF priority_tasks # {}
             THEN /\ d.table = "priority"
                  /\ \E t \in priority_tasks :
                        t.id = d.id /\ \A o \in priority_tasks : t.id <= o.id
             ELSE IF normal_tasks # {}
             THEN /\ d.table = "normal"
                  /\ \E t \in normal_tasks :
                        t.id = d.id /\ \A o \in normal_tasks : t.id <= o.id
             ELSE d = NoTask
          /\ (last.op = "pop_next_task" /\ last.ret = "Some" /\ d.table # "none")
             => LET p == delivered[Len(delivered)] IN
                /\ p.table = d.table => p.id < d.id
                /\ p.table = "normal" => d.table = "normal"]_vars

\* C5: each technique id has at most one row in the high-priority table and
\* at most one row in the normal table.
C5_OnePendingPerClass ==
    \A id \in TechIds :
        /\ Cardinality(get_priority_tasks(id)) <= 1
        /\ Cardinality(get_normal_tasks(id)) <= 1

\* a Publish was rejected because a Run of the same technique is pending,
\* with a Build of that technique pending in the other table
C5_Witness ==
    /\ last.op = "push_publish_task"
    /\ last.ret = "Unspecified"
    /\ \E t \in get_normal_tasks(last.id) : t.task_data = Null
    /\ get_priority_tasks(last.id) # {}

(***************************************************************************)
(* Properties of publish, unpublish and register.                          *)
(***************************************************************************)
\* C11: when publish_workspace_public(id, u) has just succeeded on a Finished
\* workspace, the following unpublish_workspace(id) returns u and leaves u
\* Finished with publication_time cleared and finish_time as it was.
C11_PublishThenUnpublish ==
    [][(/\ last.op = "publish_workspace_public" /\ last.ret = "Ok"
        /\ last'.op = "unpublish_workspace" /\ last'.id = last.id)
       => /\ last'.ret = "Ok"
          /\ last'.uuid = last.uuid
          /\ \A w \in WorkspaceByUuid(last.id, last.uuid) :
                 [w EXCEPT !.status = Finished, !.publication_time = Null] \in workspaces']_vars

\* the step is publish_workspace_private(id, u) on a row that is Finished
SecondPrivate(id, u, w) ==
    /\ Called("publish_workspace_private", id, u)
    /\ w \in WorkspaceByUuid(id, u)
    /\ w.status = Finished

\* C12 as stated: publish_workspace_private on a workspace that is already
\* Finished succeeds and leaves the registry exactly as it was.
C12_SecondPrivateSameState ==
    [][\A id \in TechIds, u \in Uuids, w \in workspaces :
          SecondPrivate(id, u, w) => last'.ret = "Ok" /\ regVars' = regVars]_vars

\* C12 amended: publish_workspace_private on a workspace that is already
\* Finished succeeds, keeps it Finished, sets its finish_time to the time of
\* this call and changes nothing else in the registry.
C12_SecondPrivateRestamps ==
    [][\A id \in TechIds, u \in Uuids, w \in workspaces :
          SecondPrivate(id, u, w)
          => /\ last'.ret = "Ok"
             /\ workspaces' = (workspaces \ {w}) \cup {[w EXCEPT !.finish_time = now]}
             /\ techniques' = techniques
             /\ next_uuid' = next_uuid]_vars

\* a second publish_workspace_private made at a later time than the first
C12_Witness ==
    /\ last.op = "publish_workspace_private"
    /\ last.ret = "Ok"
    /\ \E f \in last.found :
          /\ f.status = Finished
          /\ f.finish_time < now
          /\ [f EXCEPT !.finish_time = now] \in workspaces

Inserted(table) == table' \ table

\* C16: a successful push stores one row of the kind and priority of the call:
\* push_build_task a Build in the high-priority table, push_run_task a
\* RunBenchmark and push_publish_task a PublishResults carrying the uuid in the
\* normal table; get_type on the row, which is what a pop reports, is that kind.
C16_KindPreserved ==
    [][\A id \in TechIds :
          (last'.id = id /\ last'.ret = "Ok")
          => /\ last'.op = "push_build_task"
                => /\ Inserted(normal_tasks) = {}
                   /\ \E t \in Inserted(priority_tasks) :
                         /\ Inserted(priority_tasks) = {t}
                         /\ t.technique_id = id
                         /\ get_type(t.task_type) = Build
             /\ last'.op = "push_run_task"
                => /\ Inserted(priority_tasks) = {}
                   /\ \E t \in Inserted(normal_tasks) :
                         /\ Inserted(normal_tasks) = {t}
                         /\ t.technique_id = id
                         /\ get_type(t.task_type) = RunBenchmark
             /\ last'.op = "push_publish_task"
                => /\ Inserted(priority_tasks) = {}
                   /\ \E t \in Inserted(normal_tasks) :
                         /\ Inserted(normal_tasks) = {t}
                         /\ t.technique_id = id
                         /\ get_type(t.task_type) = PublishResults
                         /\ t.task_data = last'.uuid]_vars

\* the step is a push for technique id
Pushing(id) ==
    /\ last'.op \in {"push_build_task", "push_run_task", "push_publish_task"}
    /\ last'.id = id

\* the table a push inserts into already holds a task of technique id
PendingFor(op, id) ==
    IF op = "push_build_task" THEN get_priority_tasks(id) # {} ELSE get_normal_tasks(id) # {}

\* C17: a push for an unregistered id returns NotRegistered, a push for a
\* technique with a pending task of that priority is rejected, and every
\* rejected push leaves both task tables as they were.
C17_RejectedPushNoEffect ==
    [][\A id \in TechIds :
          Pushing(id)
          => /\ id \notin Registered => last'.ret = "NotRegistered"
             /\ (id \in Registered /\ PendingFor(last'.op, id)) => last'.ret = "Unspecified"
             /\ last'.ret # "Ok"
                => priority_tasks' = priority_tasks /\ normal_tasks' = normal_tasks]_vars

\* a Build was rejected because a Build of the same technique is pending
C17_Witness ==
    /\ last.op = "push_build_task"
    /\ last.ret = "Unspecified"
    /\ last.id \in Registered
    /\ Cardinality(get_priority_tasks(last.id)) = 1

\* C18: when a Run or Publish R has just been enqueued for a technique whose
\* Build B was dequeued before, the next dequeue that returns a task of that
\* technique returns R, or a Build that was not dequeued before (one enqueued
\* between B and R); B does not come again ahead of R.
C18_BuildThenItsRun ==
    [][(/\ Popped
        /\ last.op \in {"push_run_task", "push_publish_task"}
        /\ last.ret = "Ok"
        /\ delivered'[Len(delivered')].technique_id = last.id
        /\ \E i \in 1..Len(delivered) :
              /\ delivered[i].table = "priority"
              /\ delivered[i].technique_id = last.id)
       => LET d == delivered'[Len(delivered')] IN
          \/ d.table = "normal"
          \/ /\ d.table = "priority"
             /\ \A i \in 1..Len(delivered) :
                   ~ (delivered[i].table = "priority" /\ delivered[i].id = d.id)]_vars

(***************************************************************************)
(* Properties of the mail queue.                                           *)
(***************************************************************************)
\* message number m is in the table
Queued(m) == \E t \in message_tasks : t.msg = m

\* client.send has accepted message number m
Sent(m) == \E i \in 1..Len(sent) : sent[i].msg = m

\* C19: a row leaves message_tasks only in a pop_next_message of the mailer,
\* and it is the row the mailer holds, whose send was the last one accepted;
\* no row leaves while the last send of it failed.
C19_DeleteAfterSend ==
    [][\A r \in message_tasks \ message_tasks' :
          /\ last'.op = "pop_next_message"
          /\ last'.ret = "Ok"
          /\ mailer.msg = r
          /\ Len(sent) > 0
          /\ sent[Len(sent)] = r
          /\ message_tasks' = message_tasks \ {r}]_vars

\* a message was removed after a failed and then an accepted send, while a
\* message pushed in the meantime stays queued
C19_Witness ==
    /\ last.op = "pop_next_message"
    /\ last.ret = "Ok"
    /\ mailer.retried
    /\ sent # <<>>
    /\ sent[Len(sent)] = mailer.msg
    /\ ~ Queued(mailer.msg.msg)
    /\ message_tasks # {}

\* C20: with the mailer running and no message refused for ever, every
\* queued message is eventually sent and removed, and messages are accepted
\* in the order of their pushes, each once.
C20_DrainedInOrder ==
    /\ \A m \in 1..MaxMsgs : Queued(m) ~> (Sent(m) /\ ~ Queued(m))
    /\ [](\A i \in 1..Len(sent) : sent[i].msg = i)

\* every message pushed was sent and removed, the last one after a retry
C20_Witness ==
    /\ pushed = MaxMsgs
    /\ message_tasks = {}
    /\ Len(sent) = pushed
    /\ mailer.retried
    /\ mailer.pc = "read"

(***************************************************************************)
(* Properties of the RPC server.                                           *)
(***************************************************************************)
\* the step reads the pending request of connection c
Reads(c) == conn[c].pending # <<>> /\ conn'[c].pending = <<>>

\* C21: every request other than End that the server reads gets exactly one
\* response on its connection, before the next one is read; an error response
\* and End close the connection, End without a response; bytes that are no
\* request are answered with InvalidMessage; nothing is read from or written
\* to a connection once it is closed.
C21_OneResponsePerRequest ==
    [][\A c \in Conns :
          /\ Reads(c)
             => LET req == conn[c].pending[1] IN
                /\ conn[c].state = "open"
                /\ IF req.kind = "End"
                   THEN conn'[c].resps = conn[c].resps /\ conn'[c].state = "closed"
                   ELSE /\ Len(conn'[c].resps) = Len(conn[c].resps) + 1
                        /\ SubSeq(conn'[c].resps, 1, Len(conn[c].resps)) = conn[c].resps
                        /\ LET resp == conn'[c].resps[Len(conn'[c].resps)] IN
                           /\ resp.kind # "Ok" => conn'[c].state = "closed"
                           /\ req.kind = "Invalid" => resp = RespInvalid
          /\ ~ Reads(c) => conn'[c].resps = conn[c].resps]_vars

\* C22: a request written on a connection is eventually read by the server,
\* whatever the other connections do, as long as the server process lives.
C22_SecondConnectionServed ==
    \A c \in Conns :
        (conn[c].state \in {"queued", "open"} /\ conn[c].pending # <<>>)
        ~> (conn[c].pending = <<>> \/ server.pc = "dead")

\* C23: the response to a Register request that db::register rejected is
\* Logic(message) when the rejection is a domain error, Internal otherwise.
C23_RegisterErrorOnWire ==
    [][(last'.op = "register" /\ last'.ret # "Ok")
       => FromCore(core_register(last'.ret)) =
             IF last'.ret \in DomainErrors
             THEN [kind |-> "Logic", msg |-> last'.ret]
             ELSE [kind |-> "Internal", msg |-> ""]]_vars

(***************************************************************************)
(* Properties of the lock.                                                 *)
(***************************************************************************)
\* process p is inside the body of a command
Running(p) == proc[p].pc \in InBlock

\* C24: a process inside the body of a command that changes D/public or the
\* scratch workspace holds the lock, so no two such bodies run at once.
C24_MutatorsHoldLock ==
    /\ \A p \in Procs :
          (Running(p) /\ proc[p].cmd # "ctl_update_scenes") => flock = p
    /\ \A p, q \in Procs :
          (Running(p) /\ Running(q) /\ proc[p].cmd # "ctl_update_scenes"
             /\ proc[q].cmd # "ctl_update_scenes") => p = q

\* C26: update-scenes and trim never wait for the lock: with the lock held by
\* another process they change nothing and return, with the lock free they
\* take it, hold it through their body and release it when the body ends.
C26_TryNeverBlocks ==
    [][\A p \in Procs :
          LockKind(proc[p].cmd) = "try"
          => /\ proc'[p].pc # "wait"
             /\ (proc[p].pc = "try" /\ proc'[p] # proc[p])
                => IF flock # 0
                   THEN proc'[p].pc = "skipped" /\ written' = written /\ flock' = flock
                   ELSE proc'[p].pc = "body" /\ flock' = p
             /\ Running(p) => flock = p
             /\ (Running(p) /\ proc'[p].pc \notin InBlock) => flock' = 0
             /\ proc[p].pc = "skipped" => proc'[p] = proc[p]]_vars

\* one process was turned away while another one held the lock
C26_Witness ==
    \E p, q \in Procs :
        /\ proc[p].cmd = "ctl_trim" /\ proc[p].pc = "skipped"
        /\ proc[q].cmd = "ctl_update_scenes" /\ proc[q].pc = "end" /\ flock = q

\* C27: the lock is held only by a process inside a guarded body, whichever
\* way the previous holders left theirs, and a process waiting for the lock
\* gets it.
C27_ReleasedOnEveryExit ==
    /\ [](\A p \in Procs :
             flock = p => (Running(p) /\ LockKind(proc[p].cmd) # "none"))
    /\ \A p \in Procs : (proc[p].pc = "wait") ~> (flock = p)

\* a process holds the lock after a holder that did not return normally
C27_Witness ==
    \E p, q \in Procs :
        /\ flock = p /\ LockKind(proc[p].cmd) = "block"
        /\ proc[q].pc = "failed" /\ LockKind(proc[q].cmd) = "block"

\* C28: a command working in the scratch workspace holds the lock and finds
\* there only what it put there itself after wiping it; no two commands work
\* in it at once.
C28_ScratchSingleTenant ==
    /\ \A p \in Procs :
          (proc[p].cmd \in ScratchCmds /\ proc[p].pc \in {"use", "end"})
          => (flock = p /\ written["scratch"] = p)
    /\ \A p, q \in Procs :
          (proc[p].cmd \in ScratchCmds /\ proc[q].cmd \in ScratchCmds
             /\ Running(p) /\ Running(q)) => p = q

\* a command works in the scratch workspace after another one finished there
C28_Witness ==
    \E p, q \in Procs :
        /\ proc[p].cmd = "ci_run" /\ proc[p].pc = "use"
        /\ proc[q].cmd \in ScratchCmds /\ proc[q].pc = "done"

(***************************************************************************)
(* Properties of the library operations.                                   *)
(***************************************************************************)
\* the step is a call of the library operation op
Did(op) == opres' # opres /\ opres'.op = op

\* C25: a step that changes a row of techniques or workspaces is made by the
\* RPC server process and its database call runs inside a transaction.
C25_ServerOnlyInTransaction ==
    [][regVars' # regVars
       => (opres'.by = "server" /\ InTransaction(last'.op))]_vars

\* C29: after a successful PublishPublic(p, u) the published link of p is
\* there and points to u, whether or not there was a link before, and the
\* private page of u is gone.
C29_LinkAfterPublish ==
    [][(Did("publish_public") /\ opres'.ret = "Ok")
       => /\ <<opres'.id, opres'.uuid>> \in published_links'
          /\ \A l \in published_links' : l[1] = opres'.id => l[2] = opres'.uuid
          /\ opres'.uuid \notin private_pages']_vars

\* a second workspace of the project was published with success while the
\* first one was Published, its link in place
C29_Witness ==
    /\ opres.op = "publish_public" /\ opres.ret = "Ok"
    /\ \E w \in WorkspacesOf(opres.id) :
          w.status = Published /\ w.uuid # opres.uuid
    /\ <<opres.id, opres.uuid>> \in published_links

\* C30: in the runs in which every operation succeeds, a technique has a
\* published link exactly if the registry holds a Published workspace of it,
\* and the link points to the uuid of that workspace.
C30_LinkIffPublished ==
    \A id \in TechIds :
        /\ (\E l \in published_links : l[1] = id)
           <=> (\E w \in WorkspacesOf(id) : w.status = Published)
        /\ \A l \in published_links : \A w \in WorkspacesOf(id) :
              (l[1] = id /\ w.status = Published) => l[2] = w.uuid

(***************************************************************************)
(* Properties of the consumer.                                             *)
(***************************************************************************)
\* the subcommand of fbksd-ci for a kind of task
Subcommand(task_type) ==
    CASE task_type = Build -> "build"
      [] task_type = RunBenchmark -> "run"
      [] task_type = PublishResults -> "publish"

\* user_email of the project the task belongs to
OwnerEmail(id) == <<"user_email", id>>

\* C31: when the consumer has finished with a task it popped, it has run the
\* CI container once, with the subcommand of the task's kind, and has queued
\* exactly one mail, to the email of the technique's owner.
C31_ContainerAndMailPerTask ==
    [][(consumer.pc # "exited" /\ consumer'.pc = "exited")
       => /\ Len(consumer'.runs) = 1
          /\ consumer'.runs[1].cmd = Subcommand(get_type(consumer'.task.task_type))
          /\ Len(consumer'.mails) = 1
          /\ consumer'.mails[1].to = OwnerEmail(consumer'.task.technique_id)]_vars

\* C32: the mail queued for a container run tells how the container exited:
\* failure for a non-zero status, success for status zero.
C32_MailReflectsExit ==
    \A i \in 1..Len(consumer.runs) :
        /\ consumer.runs[i].exit = "nonzero" => consumer.mails[i].text = "Task failed."
        /\ consumer.runs[i].exit = "zero" => consumer.mails[i].text = "Task succeeded."

\* C33: the consumer keeps polling: whatever it does, it is back at the poll
\* of its loop again and again.
C33_BackToPolling == []<>(consumer.pc = "poll")

(***************************************************************************)
(* Properties of the scene operations.                                     *)
(***************************************************************************)
\* C34: for a saved workspace with results for the scenes R and a corpus C,
\* InitMissingScenesWP answers NO_SCENE exactly if C \ R is empty, and when it
\* answers "" the scratch workspace is configured for the scenes C \ R and
\* this technique only; an UpdateResults after the benchmark ran there adds
\* the results of those scenes to the workspace and to the private page and
\* leaves the files both had as they were.
C34_MissingScenesOnly ==
    [][LET R == ScenesOf(tech_results.files) IN
       /\ (scn_ret'.op = "init_missing" /\ tech_results.saved /\ scn_ret'.ret # "panic")
          => /\ scn_ret'.ret = "NO_SCENE" <=> corpus \ R = {}
             /\ scn_ret'.ret = ""
                => /\ scratch'.scenes = corpus \ R
                   /\ scratch'.techniques = {OwnName(SceneProject)}
                   /\ scratch'.results = {}
       /\ (scn_ret'.op = "update_results" /\ scn_ret'.ret = "Ok")
          => /\ tech_results.files \subseteq tech_results'.files
             /\ page_results \subseteq page_results'
             /\ ScenesOf(tech_results'.files) = R \cup ScenesOf(scratch.results)
             /\ ScenesOf(page_results') = ScenesOf(tech_results'.files)
             /\ tech_results'.files \ tech_results.files \subseteq scratch.results]_vars

\* the results of a scene added later were merged into a workspace and a
\* page that had results before
C34_Witness ==
    /\ scn_ret = [op |-> "update_results", ret |-> "Ok"]
    /\ \E f, g \in tech_results.files : f.of # g.of
    /\ \E f, g \in page_results : f.of # g.of

(***************************************************************************)
(* Properties of deleting workspaces.                                      *)
(***************************************************************************)
\* C35: trim deletes exactly the workspaces that are Finished with a finish
\* time at least unpublished_days_limit days old: their rows, directories and
\* private pages are removed and num_workspaces is decremented for each, and
\* a New, Published or younger workspace keeps its row and its directory.
C35_TrimExactlyOldFinished ==
    [][Did("trim_unpublished")
       => LET due == get_unpub_older_than IN
          /\ workspaces' = workspaces \ due
          /\ \A i \in Registered :
                techniques'[i].num_workspaces =
                    techniques[i].num_workspaces
                        - Cardinality({w \in due : w.technique_id = i})
          /\ ws_dirs' = ws_dirs \ {w.uuid : w \in due}
          /\ private_pages' = private_pages \ {w.uuid : w \in due}]_vars

\* C36: delete_unpublished_workspace(id, uuid) for a Published workspace of
\* the technique fails and removes neither the row, nor the workspace
\* directory, nor public page data.
C36_PublishedNotDeleted ==
    [][(/\ Did("delete_unpublished_workspace")
        /\ \E w \in WorkspacesOf(opres'.id) :
              w.uuid = opres'.uuid /\ w.status = Published)
       => /\ opres'.ret # "Ok"
          /\ regVars' = regVars
          /\ ws_dirs' = ws_dirs
          /\ private_pages' = private_pages
          /\ public_data' = public_data]_vars

\* C40: a SaveResults that returns an error leaves no row behind and
\* num_workspaces as it was; a PublishPublic that returns an error does not
\* leave the workspace Published.
C40_FailureAtomic ==
    [][/\ (Did("save_results") /\ opres'.ret # "Ok")
          => (workspaces' = workspaces /\ techniques' = techniques)
       /\ (Did("publish_public") /\ opres'.ret # "Ok")
          => \A w \in workspaces' :
                (w.uuid = opres'.uuid /\ w.status = Published) => w \in workspaces]_vars

C38_CanRunAgreesWithSave ==
    [][(/\ opres.op = "can_run" /\ opres.ret = "true"
        /\ Did("save_results") /\ opres'.id = opres.id)
       => opres'.ret # "MaxWorkspacesExceeded"]_vars

(***************************************************************************)
(* Properties of two projects on one registry.                             *)
(***************************************************************************)
\* the uuid is that of a workspace of another technique than id
ForeignUuid(id, uuid) == \E w \in workspaces : w.uuid = uuid /\ w.technique_id # id

\* C39: publish_workspace_private, publish_workspace_public and
\* remove_workspace called with the id of one project and the uuid of a
\* workspace of another technique fail and leave every workspace row and
\* every num_workspaces as it was.
C39_NoCrossProjectChange ==
    [][(/\ last'.op \in {"publish_workspace_private", "publish_workspace_public",
                         "remove_workspace"}
        /\ ForeignUuid(last'.id, last'.uuid))
       => /\ last'.ret # "Ok"
          /\ workspaces' = workspaces
          /\ techniques' = techniques]_vars

\* a registered project that has a workspace of its own was refused the
\* uuid of the other project's workspace
C39_Witness ==
    /\ last.op \in {"publish_workspace_private", "publish_workspace_public",
                    "remove_workspace"}
    /\ last.id \in Registered
    /\ WorkspacesOf(last.id) # {}
    /\ ForeignUuid(last.id, last.uuid)
    /\ last.ret = "Unspecified"

====
